---------------------------- MODULE Spec2Model ----------------------------
(***************************************************************************)
(* A model of hikari-message: HMessage (src/hmessage/message.py) and       *)
(* MultiImageEmbedList (src/hmessage/embed.py).                            *)
(*                                                                         *)
(* Python objects are modelled with their identity: hikari embeds live in  *)
(* `heap` and Python lists of embeds in `lists`, a draft holding the id of *)
(* its list, so that in-place mutation and sharing are visible.            *)
(*                                                                         *)
(* Values.  None is the record [none |-> TRUE]; a str is [str |-> chunks], *)
(* chunks a sequence over Chunks in which "K" stands for a block of        *)
(* BlockLen characters that holds no newline; a url is [base, des], des    *)
(* the value of the designator query parameter (NoDes: the url has none);  *)
(* a colour is [rgb |-> c].                                                *)
(***************************************************************************)
EXTENDS Integers, Sequences, FiniteSets, TLC

VARIABLES heap, lists, drafts, last, nmerge, group, supplied

vars == <<heap, lists, drafts, last, nmerge, group, supplied>>

---------------------------------------------------------------------------
(* Bounds of the model. *)
MaxDrafts == 2
MaxMerges == 1
MaxGroup == 4

(* The limits of src/hmessage/message.py. *)
MaxContent == 2000
MaxEmbeds == 10
MaxAttachments == 10

---------------------------------------------------------------------------
(* Values *)
None == [none |-> TRUE]

Text(chunks) == [str |-> chunks]

IsStr(v) == "str" \in DOMAIN v

NL == "\n"

(* The chunk "K": a block of text that fills half the content limit but one. *)
BlockLen == (MaxContent \div 2) - 1

RECURSIVE StrLen(_)
StrLen(s) ==
  IF s = <<>> THEN 0
  ELSE (IF Head(s) = "K" THEN BlockLen ELSE 1) + StrLen(Tail(s))

EndsWithNL(s) == s # <<>> /\ s[Len(s)] = NL

StartsWithNL(s) == s # <<>> /\ s[1] = NL

NoDes == -1

Url(base, des) == [base |-> base, des |-> des]

(* constants.py is not part of src/: the default colour is an opaque value, *)
(* and DESIGNATOR_PARAMETER_NAME is the query key whose value is `des`.     *)
DEFAULT_COLOR == [rgb |-> "DEFAULT_COLOR"]

(* str(x) of a url-or-None: str(None) is the text "None". *)
StrOfUrl(u) == IF u = None THEN Url("None", NoDes) ELSE u

(* Python truthiness of an Optional value: None and "" are falsy. *)
Truthy(v) == v # None /\ (IsStr(v) => v.str # <<>>)

PyOr(a, b) == IF Truthy(a) THEN a ELSE b

---------------------------------------------------------------------------
(* hikari.Embed, as the code reads and writes it. *)
Embed(title, description, url, color, timestamp) ==
  [title |-> title, description |-> description, url |-> url,
   color |-> color, timestamp |-> timestamp, image |-> None,
   thumbnail |-> None, video |-> None, author |-> None, provider |-> None,
   footer |-> None, fields |-> <<>>]

set_image(e, image) == [e EXCEPT !.image = image]

set_thumbnail(e, t) == [e EXCEPT !.thumbnail = t]

---------------------------------------------------------------------------
(* MultiImageEmbedList (src/hmessage/embed.py).  A list of embeds is a     *)
(* sequence of embed records; a call that may raise yields [err, embeds],  *)
(* err = "" when it returns.                                               *)

(* Colour truthiness: hikari.Color is an int, black (0) is falsy. *)
ColorTruthy(c) == c # None /\ c.rgb # "0x000000"

add_image_AlwaysAppends(g, image) ==
  Append(g, set_image(Embed(None, Text(<<>>), g[1].url, DEFAULT_COLOR, None), image))

add_image(g, image) ==
  IF g[Len(g)].image # None
  THEN Append(g, set_image(Embed(None, Text(<<>>), g[1].url, DEFAULT_COLOR, None),
                           image))
  ELSE [g EXCEPT ![Len(g)] = set_image(@, image)]

RECURSIVE add_images(_, _)
add_images(g, images) ==
  IF images = <<>> THEN g
  ELSE add_images(add_image(g, Head(images)), Tail(images))

(* `designator or 0`, the designator argument being an int or None (NoDes). *)
DesignatorOrZero(designator) == IF designator = NoDes THEN 0 ELSE designator

(* yarl.URL(str(url)) % {DESIGNATOR_PARAMETER_NAME: designator}, designator *)
(* being url.query.get(DESIGNATOR_PARAMETER_NAME, designator or 0).         *)
DesignatedUrl(url, designator) ==
  LET u == StrOfUrl(url)
  IN Url(u.base, IF u.des # NoDes THEN u.des ELSE DesignatorOrZero(designator))

(* MultiImageEmbedList.__init__: kw holds the keyword arguments title,      *)
(* description, color, timestamp and image (None when not passed).  No call *)
(* passes `colour`, so the colour test is the one on `color`.  The list is  *)
(* built with the first embed, then `add_image` for each remaining image.   *)
MultiImageEmbedList(url, designator, images, kw) ==
  IF Truthy(kw.image)
  THEN [err |-> "ValueError", embeds |-> <<>>]
  ELSE LET description == IF ~Truthy(kw.description) THEN Text(<<>>)
                          ELSE kw.description
           color == IF ~ColorTruthy(kw.color) THEN DEFAULT_COLOR ELSE kw.color
           embed == Embed(kw.title, description, DesignatedUrl(url, designator),
                          color, kw.timestamp)
           first == IF images # <<>> THEN set_image(embed, Head(images))
                    ELSE embed
       IN [err |-> "",
           embeds |-> add_images(<<first>>,
                                 IF images = <<>> THEN <<>> ELSE Tail(images))]

(* The copy of image, footer, thumbnail, author and fields onto the first   *)
(* embed of the group.                                                      *)
CopyExtras(first, embed) ==
  [first EXCEPT
     !.image = IF embed.image # None THEN embed.image ELSE @,
     !.footer = IF embed.footer # None THEN embed.footer ELSE @,
     !.thumbnail = IF embed.thumbnail # None THEN embed.thumbnail ELSE @,
     !.author = IF embed.author # None THEN embed.author ELSE @,
     !.fields = @ \o embed.fields]

from_embed(embed, designator, images, default_url) ==
  LET m == MultiImageEmbedList(
             PyOr(embed.url, default_url), designator, <<>>,
             [description |-> embed.description, title |-> embed.title,
              color |-> IF ColorTruthy(embed.color) THEN embed.color
                        ELSE DEFAULT_COLOR,
              timestamp |-> embed.timestamp, image |-> None])
  IN IF m.err # "" THEN m
     ELSE IF m.embeds[1].url = None
     THEN [err |-> "ValueError", embeds |-> <<>>]
     ELSE [err |-> "",
           embeds |-> add_images(<<CopyExtras(m.embeds[1], embed)>>, images)]

---------------------------------------------------------------------------
(* HMessage (src/hmessage/message.py).  A store S == [heap, lists, drafts]  *)
(* is the object graph: heap[id] an embed, lists[id] a Python list of embed *)
(* ids, drafts[d] == [content, embeds (a list id), attachments].  A method  *)
(* yields [S, ret]: the store it leaves and "self", "None" or the name of   *)
(* the exception it raises.                                                 *)

Store == [heap |-> heap, lists |-> lists, drafts |-> drafts]

EmbedsOf(S, d) == S.lists[S.drafts[d].embeds]

(* The validators run by the attrs-generated __init__ only. *)
ValidateContentFails_AtLimit(value) == StrLen(value) >= MaxContent

ValidateContentFails(value) == StrLen(value) > MaxContent

ValidateEmbedsFails(value) == Len(value) > MaxEmbeds

ValidateAttachmentsFails(value) == Len(value) > MaxAttachments

(* HMessage(content=..., embeds=<list object l>, attachments=...) *)
HMessageInit(S, content, l, attachments) ==
  IF \/ ValidateContentFails(content)
     \/ ValidateEmbedsFails(S.lists[l])
     \/ ValidateAttachmentsFails(attachments)
  THEN [S |-> S, ret |-> "ValueError"]
  ELSE [S |-> [S EXCEPT !.drafts = Append(@, [content |-> content, embeds |-> l,
                                             attachments |-> attachments])],
        ret |-> "new"]

(* a new list object holding ids *)
NewList(S, ids) == [S EXCEPT !.lists = Append(@, ids)]

(* self.embeds = [h.Embed(...)]: a new embed in a new list *)
SetSingleEmbed(S, d, e) ==
  [S EXCEPT !.heap = Append(@, e),
            !.lists = Append(@, <<Len(S.heap) + 1>>),
            !.drafts[d].embeds = Len(S.lists) + 1]

UseEndline(a, b) == ~(EndsWithNL(a) \/ StartsWithNL(b))

HMessageAdd(S, a, b) ==
  LET content == S.drafts[a].content
                   \o (IF UseEndline(S.drafts[a].content, S.drafts[b].content)
                       THEN <<NL>> ELSE <<>>)
                   \o S.drafts[b].content
      S1 == NewList(S, EmbedsOf(S, a) \o EmbedsOf(S, b))
      r == HMessageInit(S1, content, Len(S1.lists),
                        S.drafts[a].attachments \o S.drafts[b].attachments)
  IN IF r.ret = "ValueError" THEN [S |-> S, ret |-> "ValueError"] ELSE r

(* list[i] of Python for a list of n elements: the 1-based position *)
PyIndexOK(i, n) == -n <= i /\ i < n

PyIndex(i, n) == IF i >= 0 THEN i + 1 ELSE n + i + 1

(* int(embed_no) % len(self.embeds), as a 1-based position *)
WrapIndex(embed_no, n) == (embed_no % n) + 1

Pop(l, pos) == SubSeq(l, 1, pos - 1) \o SubSeq(l, pos + 1, Len(l))

InsertAt(l, pos, x) == SubSeq(l, 1, pos - 1) \o <<x>> \o SubSeq(l, pos, Len(l))

RECURSIVE Reverse(_)
Reverse(s) == IF s = <<>> THEN <<>> ELSE Append(Reverse(Tail(s)), Head(s))

(* for embed in embeds: self.embeds.insert(pos, embed) *)
RECURSIVE InsertEach(_, _, _)
InsertEach(l, pos, ids) ==
  IF ids = <<>> THEN l
  ELSE InsertEach(InsertAt(l, pos, Head(ids)), pos, Tail(ids))

(* pop the embed at pos of draft d's list, then insert the embeds of a      *)
(* group, as new objects, for embed in embeds[::-1] at pos                  *)
SpliceGroup_InOrder(S, d, pos, g) ==
  LET l == S.drafts[d].embeds
      ids == [k \in 1..Len(g) |-> Len(S.heap) + k]
  IN [S EXCEPT !.heap = @ \o g,
               !.lists[l] = InsertEach(Pop(@, pos), pos, ids)]

SpliceGroup(S, d, pos, g) ==
  LET l == S.drafts[d].embeds
      ids == [k \in 1..Len(g) |-> Len(S.heap) + k]
  IN [S EXCEPT !.heap = @ \o g,
               !.lists[l] = InsertEach(Pop(@, pos), pos, Reverse(ids))]

PopOnly(S, d, pos) == [S EXCEPT !.lists[S.drafts[d].embeds] = Pop(@, pos)]

merge_content_into_embed(S, d, embed_no, prepend) ==
  LET content == S.drafts[d].content
      S0 == [S EXCEPT !.drafts[d].content = <<>>]
  IN IF EmbedsOf(S, d) = <<>>
     THEN [S |-> SetSingleEmbed(S0, d, Embed(None, Text(content), None,
                                              DEFAULT_COLOR, None)),
           ret |-> "self"]
     ELSE LET pos == WrapIndex(embed_no, Len(EmbedsOf(S, d)))
              obj == EmbedsOf(S, d)[pos]
              old == IF IsStr(S.heap[obj].description)
                     THEN S.heap[obj].description.str ELSE <<>>
              new == IF prepend THEN content \o <<NL, NL>> \o old
                     ELSE old \o <<NL, NL>> \o content
          IN [S |-> [S0 EXCEPT !.heap[obj].description = Text(new)],
              ret |-> "self"]

merge_url_as_image_into_embed(S, d, url, embed_no, designator) ==
  IF url = None
  THEN [S |-> S, ret |-> "None"]
  ELSE LET S1 == IF EmbedsOf(S, d) = <<>>
                 THEN SetSingleEmbed(S, d, Embed(None, None, None,
                                                 DEFAULT_COLOR, None))
                 ELSE S
           pos == WrapIndex(embed_no, Len(EmbedsOf(S1, d)))
           g == from_embed(S1.heap[EmbedsOf(S1, d)[pos]], designator, <<url>>,
                           None)
       IN IF g.err # ""
          THEN [S |-> PopOnly(S1, d, pos), ret |-> g.err]
          ELSE [S |-> SpliceGroup(S1, d, pos, g.embeds), ret |-> "self"]

merge_embed_url_as_embed_image_into_embed(S, d, embed_no, designator) ==
  IF ~PyIndexOK(embed_no, Len(EmbedsOf(S, d)))
  THEN [S |-> S, ret |-> "IndexError"]
  ELSE LET n == Len(EmbedsOf(S, d))
           url == S.heap[EmbedsOf(S, d)[PyIndex(embed_no, n)]].url
           r == merge_url_as_image_into_embed(S, d, url, embed_no, designator)
           n2 == Len(EmbedsOf(r.S, d))
       IN IF r.ret \notin {"self", "None"} THEN r
          ELSE IF ~PyIndexOK(embed_no, n2)
          THEN [S |-> r.S, ret |-> "IndexError"]
          ELSE [S |-> [r.S EXCEPT
                         !.heap[EmbedsOf(r.S, d)[PyIndex(embed_no, n2)]].url = None],
                ret |-> "self"]

RECURSIVE ClearThumbnails(_, _)
ClearThumbnails(h, ids) ==
  IF ids = <<>> THEN h
  ELSE ClearThumbnails([h EXCEPT ![Head(ids)] = set_thumbnail(@, None)],
                       Tail(ids))

remove_all_embed_thumbnails(S, d) ==
  [S |-> [S EXCEPT !.heap = ClearThumbnails(@, EmbedsOf(S, d))], ret |-> "self"]

(* An attachment is [url, media_type], media_type None or the str           *)
(* <<type, subtype>>; an attachment that is a bare url has no media_type.   *)
IsImageAttachment(att) ==
  /\ "media_type" \in DOMAIN att
  /\ IsStr(att.media_type)
  /\ att.media_type.str # <<>>
  /\ att.media_type.str[1] = "image"

RECURSIVE AttachmentsToEmbeds(_)
AttachmentsToEmbeds(atts) ==
  IF atts = <<>> THEN <<>>
  ELSE (IF IsImageAttachment(Head(atts)) THEN <<Head(atts).url>> ELSE <<>>)
         \o AttachmentsToEmbeds(Tail(atts))

RECURSIVE AttachmentsRemaining(_)
AttachmentsRemaining(atts) ==
  IF atts = <<>> THEN <<>>
  ELSE (IF IsImageAttachment(Head(atts)) THEN <<>> ELSE <<Head(atts)>>)
         \o AttachmentsRemaining(Tail(atts))

(* self.embeds.append(e): a new embed at the end of the draft's own list *)
AppendEmbed(S, d, e) ==
  [S EXCEPT !.heap = Append(@, e),
            !.lists[S.drafts[d].embeds] = Append(@, Len(S.heap) + 1)]

merge_attachements_into_embed(S, d, embed_no, designator, new_embed, default_url) ==
  LET S1 == IF EmbedsOf(S, d) = <<>>
            THEN SetSingleEmbed(S, d, Embed(None, None, None, DEFAULT_COLOR, None))
            ELSE S
      S2 == IF new_embed
            THEN AppendEmbed(S1, d, Embed(None, Text(<<".">>), None,
                                          DEFAULT_COLOR, None))
            ELSE S1
      no == IF new_embed THEN Len(EmbedsOf(S1, d)) ELSE embed_no
      pos == WrapIndex(no, Len(EmbedsOf(S2, d)))
      g == from_embed(S2.heap[EmbedsOf(S2, d)[pos]], designator,
                      AttachmentsToEmbeds(S.drafts[d].attachments), default_url)
  IN IF g.err # ""
     THEN [S |-> PopOnly(S2, d, pos), ret |-> g.err]
     ELSE [S |-> [SpliceGroup(S2, d, pos, g.embeds) EXCEPT
                    !.drafts[d].attachments = AttachmentsRemaining(@)],
           ret |-> "self"]

---------------------------------------------------------------------------
(* The caller's inputs. *)
UrlX1 == Url("https://x/1", NoDes)

UrlX2 == Url("https://x/2", 5)

Img(name) == Url(name, NoDes)

EmbedA ==
  [Embed(Text(<<"x">>), Text(<<"x">>), UrlX1, [rgb |-> "0xff0000"], Text(<<"x">>))
     EXCEPT !.thumbnail = Img("thumb.png"), !.footer = Text(<<"x">>),
            !.author = Text(<<"x">>), !.fields = <<Text(<<"x">>)>>]

EmbedB ==
  [Embed(None, None, UrlX2, [rgb |-> "0x000000"], None)
     EXCEPT !.image = Img("i0.png"), !.thumbnail = Img("thumb.png")]

EmbedC == Embed(None, Text(<<>>), None, None, None)

AttImg1 == [url |-> Img("img1.png"), media_type |-> Text(<<"image", "png">>)]

AttImg2 == [url |-> Img("img2.jpg"), media_type |-> Text(<<"image", "jpeg">>)]

AttFile == [url |-> Img("file1.txt"), media_type |-> Text(<<"text", "plain">>)]

AttBare == [url |-> Img("bare.png")]

AttNoType == [url |-> Img("untyped.bin"), media_type |-> None]

(* n embeds, EmbedA and EmbedB in turn *)
AlternatingEmbeds(n) == [k \in 1..n |-> IF k % 2 = 1 THEN EmbedA ELSE EmbedB]

(* n attachments, an image and a file in turn *)
AlternatingAttachments(n) == [k \in 1..n |-> IF k % 2 = 1 THEN AttImg1 ELSE AttFile]

RecipeNames == {"empty", "pair", "full", "long", "embeds11", "attachments11"}

Recipe(name) ==
  CASE name = "empty" ->
         [content |-> <<"K", NL>>, embeds |-> <<>>, attachments |-> <<>>]
    [] name = "pair" ->
         [content |-> <<"x">>, embeds |-> <<EmbedC, EmbedB>>,
          attachments |-> <<AttImg1, AttFile, AttImg2, AttBare, AttNoType>>]
    [] name = "full" ->
         [content |-> <<"K", "x", "x">>, embeds |-> AlternatingEmbeds(MaxEmbeds),
          attachments |-> AlternatingAttachments(MaxAttachments)]
    [] name = "long" ->
         [content |-> <<"K", "K", "x", "x", "x">>, embeds |-> <<>>,
          attachments |-> <<>>]
    [] name = "embeds11" ->
         [content |-> <<>>, embeds |-> AlternatingEmbeds(MaxEmbeds + 1),
          attachments |-> <<>>]
    [] name = "attachments11" ->
         [content |-> <<>>, embeds |-> <<>>,
          attachments |-> AlternatingAttachments(MaxAttachments + 1)]

(* The arguments of the calls: every index with the default designator and *)
(* fallback, and the other designators and fallbacks at the default index. *)
EmbedNos == {-3, -1, 0, 2}

Designators == {NoDes, 0, 1}

Fallback == Url("https://fallback/", NoDes)

MergeContentArgs ==
  [embed_no : EmbedNos, prepend : {TRUE}] \cup [embed_no : {0}, prepend : {FALSE}]

MergeEmbedUrlArgs ==
  [embed_no : EmbedNos, designator : {0}] \cup [embed_no : {0}, designator : {1}]

MergeUrlArgs ==
  [url : {Img("new.png")}, embed_no : EmbedNos, designator : {0}]
    \cup [url : {None, Img("new.png")}, embed_no : {0}, designator : {1}]

MergeAttachmentsArgs ==
  [embed_no : EmbedNos, designator : {0}, new_embed : {FALSE}, default_url : {None}]
    \cup [embed_no : {-1}, designator : {NoDes, 1}, new_embed : BOOLEAN,
          default_url : {None, Fallback}]

---------------------------------------------------------------------------
(* The state machine of the drafts.  `last` records the last call: its      *)
(* name, its arguments and what it returned or raised.                      *)

Install(S) == /\ heap' = S.heap
              /\ lists' = S.lists
              /\ drafts' = S.drafts

Init ==
  /\ heap = <<>>
  /\ lists = <<>>
  /\ drafts = <<>>
  /\ last = [op |-> "init", ret |-> "self"]
  /\ nmerge = 0
  /\ group = <<>>
  /\ supplied = <<>>

(* HMessage(content, embeds, attachments), the caller passing a new list of *)
(* new embeds.  A construction reads nothing of the drafts there are and    *)
(* changes none, so it commutes with every other call: the constructions of *)
(* a run are taken first.                                                   *)
Construct(name) ==
  /\ Len(drafts) < MaxDrafts
  /\ last.op \in {"init", "construct"}
  /\ LET r == Recipe(name)
         S1 == [Store EXCEPT
                  !.heap = @ \o r.embeds,
                  !.lists = Append(@, [k \in 1..Len(r.embeds) |-> Len(heap) + k])]
         res == HMessageInit(S1, r.content, Len(S1.lists), r.attachments)
     IN /\ Install(IF res.ret = "ValueError" THEN Store ELSE res.S)
        /\ last' = [op |-> "construct", args |-> name, ret |-> res.ret]
  /\ UNCHANGED <<nmerge, group, supplied>>

(* drafts[a] + drafts[b] *)
Add(a, b) ==
  /\ Len(drafts) < MaxDrafts
  /\ LET res == HMessageAdd(Store, a, b)
     IN /\ Install(res.S)
        /\ last' = [op |-> "add", a |-> a, b |-> b, ret |-> res.ret]
  /\ UNCHANGED <<nmerge, group, supplied>>

MergeContent(d, x) ==
  /\ nmerge < MaxMerges
  /\ LET res == merge_content_into_embed(Store, d, x.embed_no, x.prepend)
     IN /\ Install(res.S)
        /\ last' = [op |-> "merge_content_into_embed", d |-> d, args |-> x,
                    ret |-> res.ret]
  /\ nmerge' = nmerge + 1
  /\ UNCHANGED <<group, supplied>>

MergeEmbedUrl(d, x) ==
  /\ nmerge < MaxMerges
  /\ LET res == merge_embed_url_as_embed_image_into_embed(Store, d, x.embed_no,
                                                          x.designator)
     IN /\ Install(res.S)
        /\ last' = [op |-> "merge_embed_url_as_embed_image_into_embed", d |-> d,
                    args |-> x, ret |-> res.ret]
  /\ nmerge' = nmerge + 1
  /\ UNCHANGED <<group, supplied>>

MergeUrl(d, x) ==
  /\ nmerge < MaxMerges
  /\ LET res == merge_url_as_image_into_embed(Store, d, x.url, x.embed_no,
                                              x.designator)
     IN /\ Install(res.S)
        /\ last' = [op |-> "merge_url_as_image_into_embed", d |-> d, args |-> x,
                    ret |-> res.ret]
  /\ nmerge' = nmerge + 1
  /\ UNCHANGED <<group, supplied>>

MergeAttachments(d, x) ==
  /\ nmerge < MaxMerges
  /\ LET res == merge_attachements_into_embed(Store, d, x.embed_no, x.designator,
                                              x.new_embed, x.default_url)
     IN /\ Install(res.S)
        /\ last' = [op |-> "merge_attachements_into_embed", d |-> d, args |-> x,
                    ret |-> res.ret]
  /\ nmerge' = nmerge + 1
  /\ UNCHANGED <<group, supplied>>

RemoveThumbnails(d) ==
  /\ nmerge < MaxMerges
  /\ LET res == remove_all_embed_thumbnails(Store, d)
     IN /\ Install(res.S)
        /\ last' = [op |-> "remove_all_embed_thumbnails", d |-> d, ret |-> res.ret]
  /\ nmerge' = nmerge + 1
  /\ UNCHANGED <<group, supplied>>

Next ==
  \/ \E name \in RecipeNames : Construct(name)
  \/ \E a, b \in 1..Len(drafts) : Add(a, b)
  \/ \E d \in 1..Len(drafts), x \in MergeContentArgs : MergeContent(d, x)
  \/ \E d \in 1..Len(drafts), x \in MergeEmbedUrlArgs : MergeEmbedUrl(d, x)
  \/ \E d \in 1..Len(drafts), x \in MergeUrlArgs : MergeUrl(d, x)
  \/ \E d \in 1..Len(drafts), x \in MergeAttachmentsArgs : MergeAttachments(d, x)
  \/ \E d \in 1..Len(drafts) : RemoveThumbnails(d)

Spec == Init /\ [][Next]_vars

---------------------------------------------------------------------------
(* The state machine of one MultiImageEmbedList: `group` is the list (<<>>  *)
(* before it is built) and `supplied` the images given to it so far, the    *)
(* image of the source embed first.                                         *)

ImageLists ==
  { <<>>, <<Img("a.png")>>, <<Img("a.png"), Img("b.png")>>,
    <<Img("b.png"), Img("a.png")>>, <<Img("a.png"), Img("a.png")>> }

GroupUrls == {UrlX1, UrlX2}

GroupKwargs ==
  [title : {None}, description : {None, Text(<<"x">>)},
   color : {None, [rgb |-> "0xff0000"]}, timestamp : {None},
   image : {None, Img("a.png")}]

GroupConstruct(url, designator, images, kw) ==
  /\ group = <<>>
  /\ LET res == MultiImageEmbedList(url, designator, images, kw)
     IN /\ group' = res.embeds
        /\ supplied' = IF res.err = "" THEN images ELSE <<>>
        /\ last' = [op |-> "MultiImageEmbedList", kw |-> kw,
                    ret |-> IF res.err = "" THEN "self" ELSE res.err]
  /\ UNCHANGED <<heap, lists, drafts, nmerge>>

GroupFromEmbed(embed, designator, images, default_url) ==
  /\ group = <<>>
  /\ LET res == from_embed(embed, designator, images, default_url)
     IN /\ group' = res.embeds
        /\ supplied' = IF res.err # "" THEN <<>>
                       ELSE (IF embed.image # None THEN <<embed.image>> ELSE <<>>)
                              \o images
        /\ last' = [op |-> "from_embed", embed |-> embed,
                    default_url |-> default_url,
                    ret |-> IF res.err = "" THEN "self" ELSE res.err]
  /\ UNCHANGED <<heap, lists, drafts, nmerge>>

GroupAddImage(image) ==
  /\ group # <<>>
  /\ Len(supplied) < MaxGroup
  /\ group' = add_image(group, image)
  /\ supplied' = Append(supplied, image)
  /\ last' = [op |-> "add_image", ret |-> "self"]
  /\ UNCHANGED <<heap, lists, drafts, nmerge>>

GroupAddImages(images) ==
  /\ group # <<>>
  /\ Len(supplied) + Len(images) <= MaxGroup
  /\ group' = add_images(group, images)
  /\ supplied' = supplied \o images
  /\ last' = [op |-> "add_images", ret |-> "self"]
  /\ UNCHANGED <<heap, lists, drafts, nmerge>>

NextGroup ==
  \/ \E u \in GroupUrls, g \in Designators, im \in ImageLists, kw \in GroupKwargs :
       GroupConstruct(u, g, im, kw)
  \/ \E e \in {EmbedA, EmbedB, EmbedC}, g \in Designators, im \in ImageLists,
        u \in {None, Fallback} : GroupFromEmbed(e, g, im, u)
  \/ \E im \in UNION {{x[k] : k \in 1..Len(x)} : x \in ImageLists} : GroupAddImage(im)
  \/ \E im \in ImageLists : GroupAddImages(im)

SpecGroup == Init /\ [][NextGroup]_vars

---------------------------------------------------------------------------
(* What a caller sees of a draft: its content, the values of its embeds in  *)
(* order, and its attachments.                                              *)
EmbedValues(S, d) ==
  [k \in 1..Len(EmbedsOf(S, d)) |-> S.heap[EmbedsOf(S, d)[k]]]

View(S, d) ==
  [content |-> S.drafts[d].content, embeds |-> EmbedValues(S, d),
   attachments |-> S.drafts[d].attachments]

WithinLimits(v) ==
  /\ StrLen(v.content) <= MaxContent
  /\ Len(v.embeds) <= MaxEmbeds
  /\ Len(v.attachments) <= MaxAttachments

MergeOps ==
  {"merge_content_into_embed", "merge_embed_url_as_embed_image_into_embed",
   "merge_url_as_image_into_embed", "merge_attachements_into_embed",
   "remove_all_embed_thumbnails"}

Exceptions == {"ValueError", "IndexError"}

(* The images of a sequence of embeds, in order. *)
RECURSIVE ImagesOf(_)
ImagesOf(es) ==
  IF es = <<>> THEN <<>>
  ELSE (IF Head(es).image # None THEN <<Head(es).image>> ELSE <<>>)
         \o ImagesOf(Tail(es))

(* new is old with the embed at pos replaced by a group of g embeds, every  *)
(* other embed as it was and where it was                                   *)
ReplacedAt(old, new, pos) ==
  LET g == Len(new) - Len(old) + 1
  IN /\ g >= 1
     /\ SubSeq(new, 1, pos - 1) = SubSeq(old, 1, pos - 1)
     /\ SubSeq(new, pos + g, Len(new)) = SubSeq(old, pos + 1, Len(old))

---------------------------------------------------------------------------
(* C1: after any sequence of merge operations every draft still has at most *)
(* 10 embeds, at most 10 attachments and at most 2000 characters of content *)
(* (a call that would exceed a limit raising instead).                      *)
C1_LimitsHoldAfterMerges ==
  \A d \in 1..Len(drafts) : WithinLimits(View(Store, d))

(* C2: constructing a draft, and adding two drafts, raises when the         *)
(* (combined) content is longer than 2000 characters or the (combined)      *)
(* embeds or attachments are more than 10, and otherwise returns a draft    *)
(* that holds the full content, embeds and attachments.                     *)
Joined(a, b) ==
  IF EndsWithNL(a) \/ StartsWithNL(b) THEN a \o b ELSE a \o <<NL>> \o b

C2_Expected(v) ==
  IF WithinLimits(v)
  THEN /\ last'.ret = "new"
       /\ Len(drafts') = Len(drafts) + 1
       /\ View(Store', Len(drafts')) = v
       /\ \A d \in 1..Len(drafts) : View(Store', d) = View(Store, d)
  ELSE /\ last'.ret = "ValueError"
       /\ Len(drafts') = Len(drafts)
       /\ \A d \in 1..Len(drafts) : View(Store', d) = View(Store, d)

C2_Step ==
  /\ last'.op = "construct" =>
       C2_Expected(Recipe(last'.args))
  /\ last'.op = "add" =>
       LET a == View(Store, last'.a)
           b == View(Store, last'.b)
       IN C2_Expected([content |-> Joined(a.content, b.content),
                       embeds |-> a.embeds \o b.embeds,
                       attachments |-> a.attachments \o b.attachments])

C2_ConstructAndAddValidate == [][C2_Step]_vars

C2_Witness ==
  /\ last.op = "add"
  /\ last.ret = "new"
  /\ StrLen(drafts[Len(drafts)].content) = MaxContent

(* C3: on a draft with n >= 1 embeds, a merge operation that takes an embed *)
(* index i acts on the embed at position i mod n, whatever the integer i,   *)
(* and never fails with an out-of-range index.                              *)
IndexedMerges ==
  {"merge_content_into_embed", "merge_embed_url_as_embed_image_into_embed",
   "merge_url_as_image_into_embed", "merge_attachements_into_embed"}

C3_Step ==
  (/\ last'.op \in IndexedMerges
   /\ last'.op = "merge_attachements_into_embed" => ~last'.args.new_embed
   /\ Len(EmbedsOf(Store, last'.d)) >= 1)
  => /\ last'.ret # "IndexError"
     /\ ReplacedAt(EmbedValues(Store, last'.d), EmbedValues(Store', last'.d),
                   WrapIndex(last'.args.embed_no, Len(EmbedsOf(Store, last'.d))))

C3_IndexWraps == [][C3_Step]_vars

(* C4: merge_attachements_into_embed without new_embed, on a draft with at  *)
(* least one embed, leaves as attachments the previous attachments whose    *)
(* media type does not begin with "image", in order; replaces the target    *)
(* embed, where it was, by a group of embeds whose images are the target's  *)
(* previous image (if any) and then the urls of the image attachments in    *)
(* order, one image per embed; keeps every other embed and their order; and *)
(* grows the number of embeds by len(group) - 1.                            *)
C4_ImageTyped(att) ==
  /\ "media_type" \in DOMAIN att
  /\ att.media_type # None
  /\ Head(att.media_type.str) = "image"

C4_NotImageTyped(att) == ~C4_ImageTyped(att)

C4_Urls(atts) == [k \in 1..Len(atts) |-> atts[k].url]

C4_Step ==
  (/\ last'.op = "merge_attachements_into_embed"
   /\ ~last'.args.new_embed
   /\ last'.ret = "self"
   /\ Len(EmbedsOf(Store, last'.d)) >= 1)
  => LET old == View(Store, last'.d)
         new == View(Store', last'.d)
         pos == WrapIndex(last'.args.embed_no, Len(old.embeds))
         images == (IF old.embeds[pos].image # None
                    THEN <<old.embeds[pos].image>> ELSE <<>>)
                     \o C4_Urls(SelectSeq(old.attachments, C4_ImageTyped))
         g == IF images = <<>> THEN 1 ELSE Len(images)
     IN /\ new.attachments = SelectSeq(old.attachments, C4_NotImageTyped)
        /\ Len(new.embeds) = Len(old.embeds) + g - 1
        /\ ReplacedAt(old.embeds, new.embeds, pos)
        /\ ImagesOf(SubSeq(new.embeds, pos, pos + g - 1)) = images
        /\ images # <<>> =>
             \A k \in pos..(pos + g - 1) : new.embeds[k].image = images[k - pos + 1]

C4_MergeAttachments == [][C4_Step]_vars

C4_Witness ==
  /\ last.op = "merge_attachements_into_embed"
  /\ ~last.args.new_embed
  /\ last.ret = "self"
  /\ last.args.embed_no = -3
  /\ Len(EmbedsOf(Store, last.d)) = 4
  /\ Len(drafts[last.d].attachments) = 3
  /\ ImagesOf(EmbedValues(Store, last.d))
       = <<Img("i0.png"), Img("img1.png"), Img("img2.jpg")>>

(* C5: a merge operation that does not raise returns the draft it was       *)
(* called on, merge_url_as_image_into_embed with a None url included.       *)
C5_MergesReturnSelf ==
  (last.op \in MergeOps /\ last.ret \notin Exceptions) => last.ret = "self"

(* C6: from_embed raises when the source embed has no url and no default_url *)
(* is given, and no embed with a made-up url is ever produced.              *)
C6_FromEmbedNeedsUrl ==
  /\ (/\ last.op = "from_embed"
      /\ last.embed.url = None
      /\ last.default_url = None) => last.ret = "ValueError"
  /\ \A k \in 1..Len(group) : group[k].url = None \/ group[k].url.base # "None"

(* C7: a MultiImageEmbedList built by the constructor or from_embed and     *)
(* extended by add_image / add_images is non-empty; its embeds all have the *)
(* url of the first; every embed but the first has description "", the      *)
(* default colour, no title, footer, thumbnail, author or fields, and       *)
(* exactly one image; the images are in the order supplied; and there are   *)
(* max(1, number of images) embeds.                                         *)
C7_GroupShape ==
  /\ (last.op # "init" /\ last.ret = "self") => group # <<>>
  /\ group # <<>> =>
       /\ \A k \in 1..Len(group) : group[k].url = group[1].url
       /\ \A k \in 2..Len(group) :
            /\ group[k].description = Text(<<>>)
            /\ group[k].color = DEFAULT_COLOR
            /\ group[k].title = None
            /\ group[k].footer = None
            /\ group[k].thumbnail = None
            /\ group[k].author = None
            /\ group[k].fields = <<>>
            /\ group[k].image # None
       /\ ImagesOf(group) = supplied
       /\ Len(group) = IF supplied = <<>> THEN 1 ELSE Len(supplied)

C7_Witness ==
  /\ last.op = "add_images"
  /\ Len(group) = 4
  /\ group[1].thumbnail # None
  /\ group[1].image = Img("i0.png")

(* C8: a draft owns its embeds and attachments: a merge operation on one    *)
(* draft leaves the content, embeds and attachments of every other draft    *)
(* unchanged, also when one is the sum of the other.                        *)
C8_Step ==
  last'.op \in MergeOps =>
    \A e \in 1..Len(drafts) : e # last'.d => View(Store', e) = View(Store, e)

C8_DraftsOwnTheirEmbeds == [][C8_Step]_vars

(* C9: merge_embed_url_as_embed_image_into_embed, for every index that      *)
(* selects an embed (a negative one too) whose url is U and whether or not  *)
(* the embed had an image: afterwards the first embed of the group that     *)
(* replaced it has no url, U is the image of an embed of the group, and no  *)
(* other embed had its url cleared.                                         *)
C9_Step ==
  (/\ last'.op = "merge_embed_url_as_embed_image_into_embed"
   /\ PyIndexOK(last'.args.embed_no, Len(EmbedsOf(Store, last'.d)))
   /\ EmbedValues(Store, last'.d)[PyIndex(last'.args.embed_no,
                                           Len(EmbedsOf(Store, last'.d)))].url # None)
  => LET old == EmbedValues(Store, last'.d)
         new == EmbedValues(Store', last'.d)
         pos == PyIndex(last'.args.embed_no, Len(old))
         g == Len(new) - Len(old) + 1
     IN /\ last'.ret = "self"
        /\ ReplacedAt(old, new, pos)
        /\ new[pos].url = None
        /\ \E k \in pos..(pos + g - 1) : new[k].image = old[pos].url
        /\ \A k \in (pos + 1)..(pos + g - 1) : new[k].url # None

C9_UrlBecomesImage == [][C9_Step]_vars

(* C10: merge_content_into_embed leaves the content "".  With no embeds it  *)
(* creates one embed whose description is the previous content; with n >= 1 *)
(* it changes only the description of the embed at embed_no mod n, to       *)
(* content + "\n\n" + description (prepend) or description + "\n\n" +        *)
(* content, a non-text description counting as ""; the number and order of  *)
(* the embeds, every other embed and the attachments are unchanged.         *)
C10_Description(e, content, prepend) ==
  LET d == IF e.description = None THEN <<>> ELSE e.description.str
  IN Text(IF prepend THEN content \o <<NL, NL>> \o d ELSE d \o <<NL, NL>> \o content)

C10_Step ==
  last'.op = "merge_content_into_embed" =>
    LET old == View(Store, last'.d)
        new == View(Store', last'.d)
        n == Len(old.embeds)
    IN /\ last'.ret = "self"
       /\ new.content = <<>>
       /\ new.attachments = old.attachments
       /\ IF n = 0
          THEN /\ Len(new.embeds) = 1
               /\ new.embeds[1].description = Text(old.content)
          ELSE /\ Len(new.embeds) = n
               /\ \A k \in 1..n :
                    new.embeds[k] =
                      IF k = WrapIndex(last'.args.embed_no, n)
                      THEN [old.embeds[k] EXCEPT
                              !.description = C10_Description(old.embeds[k],
                                                old.content, last'.args.prepend)]
                      ELSE old.embeds[k]

C10_MergeContent == [][C10_Step]_vars

===========================================================================
